---- MODULE Spec2Model ----
(***************************************************************************)
(* Finance tracker (Home.py): the date resolver parse_date_from_text, the  *)
(* field extraction process_user_input, and the spreadsheet schema set-up  *)
(* and append handlers, modelled as state machines.                        *)
(*                                                                         *)
(* Three specifications share the module:                                   *)
(*   SpecResolve  applies parse_date_from_text to bounded input texts;      *)
(*   SpecExtract  applies process_user_input to bounded service responses;  *)
(*   Spec         runs the Streamlit session against the spreadsheet.       *)
(***************************************************************************)
EXTENDS Integers, Sequences, FiniteSets, TLC

VARIABLES
    now,        \* datetime.now(): the day ordinal of the reference instant
    text,       \* SpecResolve: the argument of parse_date_from_text
    resolved,   \* SpecResolve: what the call produced, NotCalled before it
    response,   \* SpecExtract: response.text, a sequence of lines
    extracted,  \* SpecExtract: what process_user_input produced, NotCalled before it
    sheets,     \* Spec: the spreadsheet, sheet title -> rows (a missing title: no sheet)
    session,    \* Spec: st.session_state
    calls,      \* Spec: what the last handler did to the store and returned
    history     \* Spec: every values().append the store accepted, with the sheet as it was

vars == <<now, text, resolved, response, extracted, sheets, session, calls, history>>

NotCalled == [kind |-> "not_called"]

\* The day the model takes datetime.now() on, as a proleptic day ordinal
\* (date.toordinal()): 2026-11-01.
NowDays == {739921}

(***************************************************************************)
(* Strings as sequences of one-character strings.                          *)
(***************************************************************************)
Digits == {"0", "1", "2", "3", "4", "5", "6", "7", "8", "9"}

DigitVal(c) ==
    CASE c = "0" -> 0 [] c = "1" -> 1 [] c = "2" -> 2 [] c = "3" -> 3 [] c = "4" -> 4
      [] c = "5" -> 5 [] c = "6" -> 6 [] c = "7" -> 7 [] c = "8" -> 8 [] c = "9" -> 9

\* str.lower() on the letters the input texts use.
LowerChar(c) ==
    CASE c = "T" -> "t" [] c = "Y" -> "y" [] c = "L" -> "l" [] c = "N" -> "n"
      [] c = "D" -> "d" [] c = "J" -> "j" [] OTHER -> c

Lower(s) == [i \in 1..Len(s) |-> LowerChar(s[i])]

\* p occurs in s starting at position i.
IsPrefixAt(p, s, i) ==
    /\ i >= 1
    /\ i + Len(p) - 1 <= Len(s)
    /\ \A k \in 1..Len(p) : s[i + k - 1] = p[k]

\* Python's `p in s`.
Contains(p, s) == \E i \in 1..(Len(s) + 1) : IsPrefixAt(p, s, i)

\* The end of the longest run of digits of s that starts at position i (i - 1: none).
RECURSIVE DigitRunEnd(_, _)
DigitRunEnd(s, i) ==
    IF i >= 1 /\ i <= Len(s) /\ s[i] \in Digits THEN DigitRunEnd(s, i + 1) ELSE i - 1

\* The end of the longest run of non-space characters of s that starts at position i.
RECURSIVE WordEnd(_, _)
WordEnd(s, i) ==
    IF i >= 1 /\ i <= Len(s) /\ s[i] # " " THEN WordEnd(s, i + 1) ELSE i - 1

Slice(s, i, j) == IF j < i THEN << >> ELSE SubSeq(s, i, j)

Min(a, b) == IF a <= b THEN a ELSE b

\* The literals of parse_date_from_text, spelt as character sequences.
TODAY == <<"t", "o", "d", "a", "y">>
YESTERDAY == <<"y", "e", "s", "t", "e", "r", "d", "a", "y">>
TOMORROW == <<"t", "o", "m", "o", "r", "r", "o", "w">>
DAYBEFOREYESTERDAY == <<"d", "a", "y", " ", "b", "e", "f", "o", "r", "e", " ", "y", "e", "s", "t", "e", "r", "d", "a", "y">>
DAYAFTERTOMORROW == <<"d", "a", "y", " ", "a", "f", "t", "e", "r", " ", "t", "o", "m", "o", "r", "r", "o", "w">>
LAST == <<"l", "a", "s", "t">>
NEXT == <<"n", "e", "x", "t">>
U_DAY == <<"d", "a", "y">>
U_WEEK == <<"w", "e", "e", "k">>
U_MONTH == <<"m", "o", "n", "t", "h">>
D_1_2_24 == <<"1", "/", "2", "/", "2", "4">>
D_5_JAN_2024 == <<"5", " ", "j", "a", "n", " ", "2", "0", "2", "4">>

(***************************************************************************)
(* DateResolver: parse_date_from_text (Home.py 102-172).                   *)
(***************************************************************************)
\* datetime.max.toordinal(): every datetime lies on a day in 1..DateMaxOrdinal.
DateMaxOrdinal == 3652059

\* int(match.group(1)). The digits are read exactly up to DateMaxOrdinal + 1; every
\* larger number stands for "more days than any datetime can be shifted by".
IntOf(ds) ==
    LET f[k \in 0..Len(ds)] ==
            IF k = 0 THEN 0 ELSE Min(f[k - 1] * 10 + DigitVal(ds[k]), DateMaxOrdinal + 1)
    IN  f[Len(ds)]

Timestamp(day, tod) == [kind |-> "ok", day |-> day, tod |-> tod]
Raised == [kind |-> "raise"]

\* current_date = datetime.now()
CurrentDate(n) == Timestamp(n, "now")

\* current_date +/- timedelta(days=d): OverflowError outside the datetime range.
Shift(n, d) == IF n + d \in 1..DateMaxOrdinal THEN Timestamp(n + d, "now") ELSE Raised

\* The relative_dates table, in the dict's insertion order, which is the order
\* the loop `for phrase, date in relative_dates.items()` visits it in.
relative_dates ==
    << [phrase |-> TODAY, days |-> 0],
       [phrase |-> YESTERDAY, days |-> -1],
       [phrase |-> TOMORROW, days |-> 1],
       [phrase |-> DAYBEFOREYESTERDAY, days |-> -2],
       [phrase |-> DAYAFTERTOMORROW, days |-> 2] >>

\* The table's entries whose phrase is a substring of the text.
PhraseHits(t) == {i \in 1..Len(relative_dates) : Contains(relative_dates[i].phrase, t)}

\* `if phrase in text: return date` for the first entry in iteration order.
FirstPhrase(t) == CHOOSE i \in PhraseHits(t) : \A j \in PhraseHits(t) : i <= j

\* (day|week|month) at position k, "none" when none of them is there.
UnitAt(s, k) ==
    IF IsPrefixAt(U_DAY, s, k) THEN "day"
    ELSE IF IsPrefixAt(U_WEEK, s, k) THEN "week"
    ELSE IF IsPrefixAt(U_MONTH, s, k) THEN "month"
    ELSE "none"

\* r'<word> (\d+) (day|week|month)s?' matches at position i. \d+ is greedy and the
\* character after it must be a space, so it takes the whole run of digits.
OffsetMatchAt(word, s, i) ==
    LET j == i + Len(word) + 1
        e == DigitRunEnd(s, j)
    IN  /\ IsPrefixAt(word \o <<" ">>, s, i)
        /\ e >= j
        /\ e + 1 <= Len(s)
        /\ s[e + 1] = " "
        /\ UnitAt(s, e + 2) # "none"

OffsetMatches(word, s) == {i \in 1..Len(s) : OffsetMatchAt(word, s, i)}

\* re.search: the leftmost match, with its groups (number, unit).
OffsetSearch(word, s) ==
    LET i == CHOOSE i \in OffsetMatches(word, s) : \A j \in OffsetMatches(word, s) : i <= j
        j == i + Len(word) + 1
        e == DigitRunEnd(s, j)
    IN  [number |-> IntOf(Slice(s, j, e)), unit |-> UnitAt(s, e + 2)]

\* A month taken as 31 days, a week as 5.
OffsetDays_wrong_units(m) ==
    CASE m.unit = "day" -> m.number
      [] m.unit = "week" -> 5 * m.number
      [] m.unit = "month" -> m.number * 31

\* timedelta(days=number), timedelta(weeks=number), timedelta(days=number * 30)
OffsetDays(m) ==
    CASE m.unit = "day" -> m.number
      [] m.unit = "week" -> 7 * m.number
      [] m.unit = "month" -> m.number * 30

RunLen(s, i) == DigitRunEnd(s, i) - i + 1

IsSep(s, i) == i >= 1 /\ i <= Len(s) /\ s[i] \in {"-", "/"}

\* \d{1,2}[-/]\d{1,2}[-/]\d{2,4} at position i: the position of its last character,
\* 0 when it does not match there.
DatePatternAlt1End(s, i) ==
    LET a == RunLen(s, i)
        b == RunLen(s, i + a + 1)
        c == RunLen(s, i + a + b + 2)
    IN  IF /\ a \in {1, 2} /\ IsSep(s, i + a)
           /\ b \in {1, 2} /\ IsSep(s, i + a + b + 1)
           /\ c >= 2
        THEN i + a + b + 2 + Min(c, 4) - 1
        ELSE 0

\* \d{4}[-/]\d{1,2}[-/]\d{1,2} at position i, likewise.
DatePatternAlt2End(s, i) ==
    LET b == RunLen(s, i + 5)
        c == RunLen(s, i + 5 + b + 1)
    IN  IF /\ RunLen(s, i) = 4 /\ IsSep(s, i + 4)
           /\ b \in {1, 2} /\ IsSep(s, i + 5 + b)
           /\ c >= 1
        THEN i + 5 + b + 1 + Min(c, 2) - 1
        ELSE 0

DatePatternEnd(s, i) ==
    IF DatePatternAlt1End(s, i) # 0 THEN DatePatternAlt1End(s, i) ELSE DatePatternAlt2End(s, i)

DatePatternMatches(s) == {i \in 1..Len(s) : DatePatternEnd(s, i) # 0}

\* match.group() of re.search(date_pattern, text)
DatePatternSearch(s) ==
    LET i == CHOOSE i \in DatePatternMatches(s) : \A j \in DatePatternMatches(s) : i <= j
    IN  Slice(s, i, DatePatternEnd(s, i))

\* text.split(): the maximal runs of non-space characters.
RECURSIVE Split(_)
Split(s) ==
    IF s = << >> THEN << >>
    ELSE IF Head(s) = " " THEN Split(Tail(s))
    ELSE <<SubSeq(s, 1, WordEnd(s, 1))>> \o Split(Slice(s, WordEnd(s, 1) + 1, Len(s)))

\* ' '.join(words[i:i+3]), i counted from 1
Window(words, i) == words[i] \o <<" ">> \o words[i + 1] \o <<" ">> \o words[i + 2]

\* dateutil's parser.parse on the strings the model hands it: a numeric m/d/yy date
\* and a day-month-year date parse to midnight of that day; 99/99/99 has no valid
\* month, and a string holding a word the parser does not know raises.
ParserParse(str) ==
    IF str = D_1_2_24 THEN Timestamp(738887, "midnight")
    ELSE IF str = D_5_JAN_2024 THEN Timestamp(738890, "midnight")
    ELSE Raised

\* The 3-word windows, in order, that parser.parse accepts.
WindowHits(words) == {i \in 1..(Len(words) - 2) : ParserParse(Window(words, i)).kind = "ok"}

\* The body of the outer try block: the value returned, or Raised.
ResolveBody(txt, n) ==
    LET t == Lower(txt)
        words == Split(t)
    IN  IF Shift(n, 2).kind = "raise" \/ Shift(n, -2).kind = "raise" THEN Raised
        ELSE IF PhraseHits(t) # {} THEN Shift(n, relative_dates[FirstPhrase(t)].days)
        ELSE IF OffsetMatches(LAST, t) # {} THEN Shift(n, 0 - OffsetDays(OffsetSearch(LAST, t)))
        ELSE IF OffsetMatches(NEXT, t) # {} THEN Shift(n, OffsetDays(OffsetSearch(NEXT, t)))
        ELSE IF DatePatternMatches(t) # {} THEN ParserParse(DatePatternSearch(t))
        ELSE IF WindowHits(words) # {}
             THEN ParserParse(Window(words, CHOOSE i \in WindowHits(words) :
                                                \A j \in WindowHits(words) : i <= j))
        ELSE CurrentDate(n)

\* Without the outer `except Exception: return current_date`.
parse_date_from_text_uncaught(txt, n) == ResolveBody(txt, n)

\* parse_date_from_text: the outer handler turns every exception of the body into
\* current_date.
parse_date_from_text(txt, n) ==
    LET body == ResolveBody(txt, n)
    IN  IF body.kind = "raise" THEN CurrentDate(n) ELSE body

(***************************************************************************)
(* SpecResolve: parse_date_from_text applied to bounded texts.             *)
(***************************************************************************)
\* The pieces the input texts are put together from.
Chunks ==
    << <<"T", "o", "d", "a", "y">>,
       <<"y", "e", "s", "t", "e", "r", "d", "a", "y">>,
       <<"t", "o", "m", "o", "r", "r", "o", "w">>,
       <<" ", "d", "a", "y", " ", "b", "e", "f", "o", "r", "e", " ">>,
       <<" ", "d", "a", "y", " ", "a", "f", "t", "e", "r", " ">>,
       <<"l", "a", "s", "t", " ">>,
       <<"n", "e", "x", "t", " ">>,
       <<"3">>,
       <<"9", "9", "9", "9", "9">>,
       <<" ", "w", "e", "e", "k">>,
       <<" ", "m", "o", "n", "t", "h", "s">>,
       <<" ", "1", "/", "2", "/", "2", "4", " ">>,
       <<" ", "9", "9", "/", "9", "9", "/", "9", "9", " ">>,
       <<" ", "p", "a", "i", "d", " ", "5", " ", "j", "a", "n", " ", "2", "0", "2", "4", " ">> >>

\* A text is at most MaxChunks pieces long.
MaxChunks == 3

RECURSIVE Concat(_)
Concat(cs) == IF cs = << >> THEN << >> ELSE Chunks[Head(cs)] \o Concat(Tail(cs))

Texts == {Concat(cs) : cs \in UNION {[1..k -> 1..Len(Chunks)] : k \in 0..MaxChunks}}

\* The state of the parts of the program a specification does not run.
NoSheets == [title \in {} |-> << >>]
NoSession == [kind |-> "not_started"]
NoCalls == [kind |-> "none"]
NoResponse == [kind |-> "none"]

InitResolve ==
    /\ now \in NowDays
    /\ text \in Texts
    /\ resolved = NotCalled
    /\ response = NoResponse
    /\ extracted = NotCalled
    /\ sheets = NoSheets
    /\ session = NoSession
    /\ calls = NoCalls
    /\ history = << >>

\* One call parse_date_from_text(text).
ResolveCall ==
    /\ resolved = NotCalled
    /\ resolved' = parse_date_from_text(text, now)
    /\ UNCHANGED <<now, text, response, extracted, sheets, session, calls, history>>

NextResolve == ResolveCall

SpecResolve == InitResolve /\ [][NextResolve]_vars

(***************************************************************************)
(* Claims about parse_date_from_text, checked under SpecResolve.           *)
(***************************************************************************)
\* No step of the resolution order yields a date for the text: no relative keyword
\* is in it, a last/next offset is absent or shifts out of the datetime range, a
\* numeric date pattern is absent or does not parse, and no 3-word window parses.
NothingYieldsDate(txt, n) ==
    LET t == Lower(txt)
    IN  /\ PhraseHits(t) = {}
        /\ \/ OffsetMatches(LAST, t) = {}
           \/ n - OffsetDays(OffsetSearch(LAST, t)) < 1
        /\ \/ OffsetMatches(NEXT, t) = {}
           \/ n + OffsetDays(OffsetSearch(NEXT, t)) > DateMaxOrdinal
        /\ \/ DatePatternMatches(t) = {}
           \/ ParserParse(DatePatternSearch(t)).kind = "raise"
        /\ WindowHits(Split(t)) = {}

\* C1: parse_date_from_text never fails: every call returns a timestamp, and when no
\* step of the resolution order yields a date (the empty text included) it returns
\* the reference instant unchanged.
C1_ResolveNeverFails ==
    resolved # NotCalled =>
        /\ resolved.kind = "ok"
        /\ resolved.day \in 1..DateMaxOrdinal
        /\ NothingYieldsDate(text, now) => resolved = CurrentDate(now)
        /\ text = << >> => resolved = CurrentDate(now)

\* C1 witness: a text whose numeric date pattern the date parser rejects has been
\* resolved, to the reference instant.
C1_Witness ==
    /\ resolved # NotCalled
    /\ DatePatternMatches(Lower(text)) # {}
    /\ ParserParse(DatePatternSearch(Lower(text))).kind = "raise"
    /\ NothingYieldsDate(text, now)
    /\ resolved = CurrentDate(now)

\* The number of places p occurs at in s.
Occurrences(p, s) == Cardinality({i \in 1..Len(s) : IsPrefixAt(p, s, i)})

\* The relative phrases of a text, a shorter phrase not counted where it is only the
\* tail of a longer one (yesterday in `day before yesterday`, tomorrow in `day after
\* tomorrow`), as indices into relative_dates.
RelativePhrases(t) ==
    {i \in PhraseHits(t) :
        /\ i = 2 => Occurrences(YESTERDAY, t) > Occurrences(DAYBEFOREYESTERDAY, t)
        /\ i = 3 => Occurrences(TOMORROW, t) > Occurrences(DAYAFTERTOMORROW, t)}

\* C2: the relative keyword table maps each phrase to its offset: a text whose
\* relative phrase is today, yesterday, tomorrow, `day before yesterday` or `day after
\* tomorrow` resolves to the reference instant shifted by 0, -1, +1, -2, +2 days; the
\* longer phrases are not resolved to the offset of the phrase embedded in them.
C2_RelativeTable ==
    resolved # NotCalled =>
        \A i \in 1..Len(relative_dates) :
            RelativePhrases(Lower(text)) = {i} =>
                resolved = Timestamp(now + relative_dates[i].days, "now")

\* The expected offset in days of a matched (number, unit): N, 7 * N, 30 * N.
ExpectedDays(m) ==
    IF m.unit = "day" THEN m.number ELSE IF m.unit = "week" THEN 7 * m.number ELSE 30 * m.number

\* C3 as stated: every text matching `last <N> (day|week|month)s?` resolves to the
\* reference instant minus the offset, every text matching `next <N> ...` to the
\* reference instant plus the offset (N days, 7 * N days, 30 * N days).
C3_OffsetForAllText ==
    resolved # NotCalled =>
        LET t == Lower(text)
        IN  /\ OffsetMatches(LAST, t) # {} =>
                   /\ resolved.kind = "ok"
                   /\ resolved.day = now - ExpectedDays(OffsetSearch(LAST, t))
            /\ OffsetMatches(NEXT, t) # {} =>
                   /\ resolved.kind = "ok"
                   /\ resolved.day = now + ExpectedDays(OffsetSearch(NEXT, t))

LAST_3_WEEK == <<"l", "a", "s", "t", " ", "3", " ", "w", "e", "e", "k">>
NEXT_3_MONTHS == <<"n", "e", "x", "t", " ", "3", " ", "m", "o", "n", "t", "h", "s">>

\* C3 amended: for a text holding no relative keyword, the leftmost `last <N> unit`
\* match resolves to the reference instant minus the offset, and without a `last`
\* match the leftmost `next <N> unit` match resolves to the reference instant plus the
\* offset (N, 7 * N, 30 * N days), as long as the shifted day is a representable
\* datetime; when it is not, the reference instant is returned. `last 3 week` gives
\* -21 days and `next 3 months` +90 days.
C3_OffsetWithoutKeyword ==
    resolved # NotCalled /\ PhraseHits(Lower(text)) = {} =>
        LET t == Lower(text)
            back == now - ExpectedDays(OffsetSearch(LAST, t))
            forth == now + ExpectedDays(OffsetSearch(NEXT, t))
        IN  /\ OffsetMatches(LAST, t) # {} =>
                   resolved = IF back >= 1 THEN Timestamp(back, "now") ELSE CurrentDate(now)
            /\ OffsetMatches(LAST, t) = {} /\ OffsetMatches(NEXT, t) # {} =>
                   resolved = IF forth <= DateMaxOrdinal THEN Timestamp(forth, "now")
                              ELSE CurrentDate(now)
            /\ text = LAST_3_WEEK => resolved = Timestamp(now - 21, "now")
            /\ text = NEXT_3_MONTHS => resolved = Timestamp(now + 90, "now")

\* C3 witness: `last 3 week` has been resolved to 21 days before the reference instant.
C3_Witness ==
    /\ text = LAST_3_WEEK
    /\ resolved = Timestamp(now - 21, "now")

(***************************************************************************)
(* TransactionExtractor: process_user_input (Home.py 317-383).             *)
(***************************************************************************)
\* The keys and type values the code names.
K_type == <<"t", "y", "p", "e">>
K_amount == <<"a", "m", "o", "u", "n", "t">>
K_category == <<"c", "a", "t", "e", "g", "o", "r", "y">>
K_description == <<"d", "e", "s", "c", "r", "i", "p", "t", "i", "o", "n">>
K_date == <<"d", "a", "t", "e">>
K_due_date == <<"d", "u", "e", "_", "d", "a", "t", "e">>
V_ToReceive == <<"T", "o", " ", "R", "e", "c", "e", "i", "v", "e">>
V_ToPay == <<"T", "o", " ", "P", "a", "y">>
V_Income == <<"I", "n", "c", "o", "m", "e">>
V_Expense == <<"E", "x", "p", "e", "n", "s", "e">>

YM_2026_11 == <<"2", "0", "2", "6", "-", "1", "1", "-">>
YM_2024_01 == <<"2", "0", "2", "4", "-", "0", "1", "-">>
YM_OTHER == <<"0", "0", "0", "0", "-", "0", "0", "-", "0", "0">>

\* str.strip() for the whitespace the responses use.
RECURSIVE LStrip(_)
LStrip(s) == IF s # << >> /\ Head(s) = " " THEN LStrip(Tail(s)) ELSE s

RECURSIVE RStrip(_)
RStrip(s) == IF s # << >> /\ s[Len(s)] = " " THEN RStrip(SubSeq(s, 1, Len(s) - 1)) ELSE s

Strip(s) == RStrip(LStrip(s))

IsQuote(c) == c \in {"'", "\""}
NotQuote(c) == ~IsQuote(c)

\* value.strip().replace('"', '').replace("'", "")
CleanValue(s) == SelectSeq(Strip(s), NotQuote)

\* The positions of ':' in a line.
Colons(line) == {i \in 1..Len(line) : line[i] = ":"}

FirstColon(line) == CHOOSE i \in Colons(line) : \A j \in Colons(line) : i <= j

\* dict assignment d[k] = v
Put(d, k, v) == [x \in (DOMAIN d) \cup {k} |-> IF x = k THEN v ELSE d[x]]

EmptyMap == [x \in {} |-> << >>]

\* One turn of `for line in lines`: key, value = line.split(':', 1) when ':' is in it.
ParseLine(info, line) ==
    IF Colons(line) = {} THEN info
    ELSE Put(info, Strip(Slice(line, 1, FirstColon(line) - 1)),
                   CleanValue(Slice(line, FirstColon(line) + 1, Len(line))))

\* extracted_info after the loop over the first k lines.
RECURSIVE ParseLines(_, _)
ParseLines(lines, k) ==
    IF k = 0 THEN EmptyMap ELSE ParseLine(ParseLines(lines, k - 1), lines[k])

TwoDigits(d) == <<CHOOSE c \in Digits : DigitVal(c) = d \div 10,
                  CHOOSE c \in Digits : DigitVal(c) = d % 10>>

\* strftime('%Y-%m-%d') for the days of the months the model's dates fall in
\* (November 2026 starts at ordinal 739921, January 2024 at 738886).
Strftime(day) ==
    IF day \in 739921..739950 THEN YM_2026_11 \o TwoDigits(day - 739920)
    ELSE IF day \in 738886..738916 THEN YM_2024_01 \o TwoDigits(day - 738885)
    ELSE YM_OTHER

\* Keeps a date line the service sent.
SetEntryDate_keep_echo(info, n) ==
    IF K_date \in DOMAIN info THEN info ELSE Put(info, K_date, Strftime(n))

\* extracted_info['date'] = datetime.now().strftime('%Y-%m-%d')
SetEntryDate(info, n) == Put(info, K_date, Strftime(n))

\* Only a missing due_date gets the default; a blank or unparseable one is kept.
NormalizeDueDate_missing_only(info, n) ==
    IF info[K_type] \in {V_ToReceive, V_ToPay} /\ K_due_date \notin DOMAIN info
    THEN Put(info, K_due_date, Strftime(n + 7))
    ELSE info

\* `if extracted_info['type'] in ['To Receive', 'To Pay']:` and its body; info has
\* the key type.
NormalizeDueDate(info, n) ==
    IF info[K_type] \in {V_ToReceive, V_ToPay}
    THEN IF K_due_date \notin DOMAIN info \/ Strip(info[K_due_date]) = << >>
         THEN Put(info, K_due_date, Strftime(n + 7))
         ELSE IF ParserParse(info[K_due_date]).kind = "ok"
              THEN Put(info, K_due_date, Strftime(ParserParse(info[K_due_date]).day))
              ELSE Put(info, K_due_date, Strftime(n + 7))
    ELSE info

\* What the text-understanding service answered: a text, as its lines, or a failure
\* of chat.send_message.
TextResponse(lines) == [kind |-> "text", lines |-> lines]
ServiceFailure == [kind |-> "failure"]

Returned(info) == [kind |-> "ok", map |-> info]
RaisedError(name) == [kind |-> "raise", error |-> name]

\* process_user_input: the field map returned, or the exception re-raised by its
\* handler.
process_user_input(resp, n) ==
    IF resp.kind = "failure" THEN RaisedError("ServiceError")
    ELSE LET info == SetEntryDate(ParseLines(resp.lines, Len(resp.lines)), n)
         IN  IF K_type \notin DOMAIN info THEN RaisedError("KeyError")
             ELSE Returned(NormalizeDueDate(info, n))

(***************************************************************************)
(* SpecExtract: process_user_input applied to bounded responses.           *)
(***************************************************************************)
L_expense == <<"t", "y", "p", "e", ":", " ", "E", "x", "p", "e", "n", "s", "e">>
L_to_pay == <<"t", "y", "p", "e", ":", " ", "T", "o", " ", "P", "a", "y">>
L_to_receive == <<"t", "y", "p", "e", ":", " ", "'", "T", "o", " ", "R", "e", "c", "e", "i", "v", "e", "'">>
L_amount == <<"a", "m", "o", "u", "n", "t", ":", " ", "5", "0", "0">>
L_category == <<"c", "a", "t", "e", "g", "o", "r", "y", ":", " ", "F", "o", "o", "d">>
L_description == <<"d", "e", "s", "c", "r", "i", "p", "t", "i", "o", "n", ":", " ", "l", "u", "n", "c", "h", ":", " ", "p", "i", "z", "z", "a">>
L_due_words == <<"d", "u", "e", "_", "d", "a", "t", "e", ":", " ", "5", " ", "j", "a", "n", " ", "2", "0", "2", "4">>
L_due_soon == <<"d", "u", "e", "_", "d", "a", "t", "e", ":", " ", "s", "o", "o", "n">>
L_due_blank == <<"d", "u", "e", "_", "d", "a", "t", "e", ":", " ", " ">>
L_date_echo == <<"d", "a", "t", "e", ":", " ", "1", "9", "9", "9", "-", "0", "1", "-", "0", "1">>
L_prose == <<"S", "o", "r", "r", "y", ",", " ", "I", " ", "c", "a", "n", "n", "o", "t", " ", "h", "e", "l", "p">>

\* The pieces the response texts are put together from, each one or more lines.
Parts ==
    << <<L_expense>>, <<L_to_pay>>, <<L_to_receive>>,
       <<L_amount, L_category, L_description>>,
       <<L_due_words>>, <<L_due_soon>>, <<L_due_blank>>,
       <<L_date_echo>>, <<L_prose>>, << << >> >> >>

\* A response is at most MaxParts pieces long.
MaxParts == 3

RECURSIVE ConcatParts(_)
ConcatParts(ps) == IF ps = << >> THEN << >> ELSE Parts[Head(ps)] \o ConcatParts(Tail(ps))

\* response_text.strip().split('\n') of an empty text is one empty line.
Responses ==
    {TextResponse(IF ps = << >> THEN << << >> >> ELSE ConcatParts(ps)) :
        ps \in UNION {[1..k -> 1..Len(Parts)] : k \in 0..MaxParts}}
    \cup {ServiceFailure}

InitExtract ==
    /\ now \in NowDays
    /\ text = << >>
    /\ resolved = NotCalled
    /\ response \in Responses
    /\ extracted = NotCalled
    /\ sheets = NoSheets
    /\ session = NoSession
    /\ calls = NoCalls
    /\ history = << >>

\* One call process_user_input(user_input), the service answering `response`.
ExtractCall ==
    /\ extracted = NotCalled
    /\ extracted' = process_user_input(response, now)
    /\ UNCHANGED <<now, text, resolved, response, sheets, session, calls, history>>

NextExtract == ExtractCall

SpecExtract == InitExtract /\ [][NextExtract]_vars

(***************************************************************************)
(* Claims about process_user_input, checked under SpecExtract.             *)
(***************************************************************************)
\* extracted_info as the loop over the response lines leaves it.
RawInfo == ParseLines(response.lines, Len(response.lines))

Deferred(info) == K_type \in DOMAIN info /\ info[K_type] \in {V_ToReceive, V_ToPay}

\* C4: every field map process_user_input returns has the keys type, amount,
\* category, description and date, and due_date when its type is To Receive or
\* To Pay, whatever the service responded.
C4_FieldMapComplete ==
    extracted.kind = "ok" =>
        /\ {K_type, K_amount, K_category, K_description, K_date} \subseteq DOMAIN extracted.map
        /\ Deferred(extracted.map) => K_due_date \in DOMAIN extracted.map

\* C5: malformed lines never fail the call: a line without a colon contributes
\* nothing, and process_user_input returns a field map for every response text, one
\* whose lines are all malformed included.
C5_MalformedLinesTolerated ==
    extracted # NotCalled /\ response.kind = "text" =>
        /\ extracted.kind = "ok"
        /\ \A k \in DOMAIN extracted.map :
               k \in {K_date, K_due_date}
               \/ \E i \in 1..Len(response.lines) :
                      /\ Colons(response.lines[i]) # {}
                      /\ k = Strip(Slice(response.lines[i], 1, FirstColon(response.lines[i]) - 1))

\* C6: in every field map returned, date is the current date of the call, whatever
\* date line the service sent.
C6_DateIsCurrentDate ==
    extracted.kind = "ok" =>
        /\ K_date \in DOMAIN extracted.map
        /\ extracted.map[K_date] = Strftime(now)

\* C6 witness: the service echoed a date line of its own and a field map was
\* returned.
C6_Witness ==
    /\ extracted.kind = "ok"
    /\ K_date \in DOMAIN RawInfo
    /\ RawInfo[K_date] # Strftime(now)

\* The due_date of the raw field map is missing, blank or not parseable as a date.
DueDateUnusable(info) ==
    \/ K_due_date \notin DOMAIN info
    \/ Strip(info[K_due_date]) = << >>
    \/ ParserParse(info[K_due_date]).kind = "raise"

\* C7: with type To Receive or To Pay and a due_date that is missing, blank or not
\* parseable, process_user_input returns normally with due_date set to the current
\* date plus 7 days; with type Income or Expense the due_date is left as the service
\* sent it.
C7_DueDateDefault ==
    extracted # NotCalled /\ response.kind = "text" /\ K_type \in DOMAIN RawInfo =>
        /\ extracted.kind = "ok"
        /\ Deferred(RawInfo) /\ DueDateUnusable(RawInfo) =>
               extracted.map[K_due_date] = Strftime(now + 7)
        /\ RawInfo[K_type] \in {V_Income, V_Expense} =>
               /\ (K_due_date \in DOMAIN extracted.map) = (K_due_date \in DOMAIN RawInfo)
               /\ K_due_date \in DOMAIN RawInfo =>
                      extracted.map[K_due_date] = RawInfo[K_due_date]

\* C7 witness: a To Pay response whose due_date does not parse has been given the
\* default due date.
C7_Witness ==
    /\ extracted.kind = "ok"
    /\ Deferred(RawInfo)
    /\ K_due_date \in DOMAIN RawInfo
    /\ Strip(RawInfo[K_due_date]) # << >>
    /\ ParserParse(RawInfo[K_due_date]).kind = "raise"
    /\ extracted.map[K_due_date] = Strftime(now + 7)

(***************************************************************************)
(* LedgerStore: the spreadsheet behind service.spreadsheets(), and         *)
(* verify_sheets_setup (Home.py 641-703).                                  *)
(***************************************************************************)
Titles == {"Expenses", "Pending"}

\* headers = [['Date', 'Amount', 'Type', 'Category', 'Subcategory', 'Description']]
ExpensesHeader ==
    <<<<"D", "a", "t", "e">>,
       <<"A", "m", "o", "u", "n", "t">>,
       <<"T", "y", "p", "e">>,
       <<"C", "a", "t", "e", "g", "o", "r", "y">>,
       <<"S", "u", "b", "c", "a", "t", "e", "g", "o", "r", "y">>,
       <<"D", "e", "s", "c", "r", "i", "p", "t", "i", "o", "n">>>>

\* headers = [['Date', 'Amount', 'Type', 'Category', 'Description', 'Due Date', 'Status']]
PendingHeader ==
    <<<<"D", "a", "t", "e">>,
       <<"A", "m", "o", "u", "n", "t">>,
       <<"T", "y", "p", "e">>,
       <<"C", "a", "t", "e", "g", "o", "r", "y">>,
       <<"D", "e", "s", "c", "r", "i", "p", "t", "i", "o", "n">>,
       <<"D", "u", "e", " ", "D", "a", "t", "e">>,
       <<"S", "t", "a", "t", "u", "s">>>>

Header(title) == IF title = "Expenses" THEN ExpensesHeader ELSE PendingHeader

\* batchUpdate addSheet: a new, empty sheet.
AddSheet(sh, title) == [t \in (DOMAIN sh) \cup {title} |-> IF t = title THEN << >> ELSE sh[t]]

\* values().update(range='<title>!A1:..1'): the first row is written over.
WriteFirstRow(sh, title, r) ==
    [sh EXCEPT ![title] = IF @ = << >> THEN <<r>> ELSE [@ EXCEPT ![1] = r]]

\* values().append: the row goes after the last occupied row.
AppendRow(sh, title, r) == [sh EXCEPT ![title] = Append(@, r)]

\* values().clear of the row an append just wrote.
ClearLastRow(sh, title) == [sh EXCEPT ![title] = SubSeq(@, 1, Len(@) - 1)]

\* The first row of a sheet, << >> when it has none.
FirstRow(sh, title) == IF sh[title] = << >> THEN << >> ELSE sh[title][1]

\* The store calls a handler makes; one of them may fail with an HttpError.
AddCall(title) == IF title = "Expenses" THEN "add Expenses" ELSE "add Pending"
HeaderCall(title) == IF title = "Expenses" THEN "header Expenses" ELSE "header Pending"
FailPoints ==
    {"none", "get", "add Expenses", "header Expenses", "add Pending", "header Pending",
     "append", "clear"}

\* What a run of the schema set-up did: the sheets after it, whether it went through,
\* the sheets it created, the header rows it wrote, the sheets that appeared under it
\* and the call that raised ("exists" for an addSheet of a title that exists).
Outcome(sh, ok, creates, headers, raced, error) ==
    [sheets |-> sh, ok |-> ok, creates |-> creates, headers |-> headers,
     raced |-> raced, error |-> error]

\* Creates the sheet and writes its header whether or not the title was listed.
EnsureSheet_unconditional(o, title, existing, fail) ==
    IF ~o.ok THEN o
    ELSE [o EXCEPT !.sheets = WriteFirstRow(AddSheet(@, title), title, Header(title)),
                   !.creates = @ \cup {title},
                   !.headers = @ \cup {title}]

\* One `if '<title>' not in existing_sheets:` block of verify_sheets_setup, entered
\* with outcome o: addSheet fails when the call fails or a sheet of that title exists
\* by now; an exception ends the function with False.
EnsureSheet(o, title, existing, fail) ==
    IF ~o.ok \/ title \in existing THEN o
    ELSE IF fail = AddCall(title) THEN [o EXCEPT !.ok = FALSE, !.error = fail]
    ELSE IF title \in DOMAIN o.sheets THEN [o EXCEPT !.ok = FALSE, !.error = "exists"]
    ELSE IF fail = HeaderCall(title)
         THEN [o EXCEPT !.sheets = AddSheet(@, title), !.creates = @ \cup {title},
                        !.ok = FALSE, !.error = fail]
    ELSE [o EXCEPT !.sheets = WriteFirstRow(AddSheet(@, title), title, Header(title)),
                   !.creates = @ \cup {title},
                   !.headers = @ \cup {title}]

\* The sheets with those of `raced` created out of band, empty.
WithRaced(sh, raced) ==
    [t \in (DOMAIN sh) \cup raced |-> IF t \in DOMAIN sh THEN sh[t] ELSE << >>]

\* verify_sheets_setup: the titles are read once; `raced` are the sheets another
\* session creates between that read and this session's create calls.
verify_sheets_setup(sh, raced, fail) ==
    IF fail = "get" THEN Outcome(sh, FALSE, {}, {}, {}, "get")
    ELSE EnsureSheet(
             EnsureSheet(Outcome(WithRaced(sh, raced), TRUE, {}, {}, raced, "none"),
                         "Expenses", DOMAIN sh, fail),
             "Pending", DOMAIN sh, fail)

(***************************************************************************)
(* The session: main (Home.py 705-748), show_transaction_form (512-604),   *)
(* add_transaction_to_sheet (267-295), add_pending_transaction_to_sheet     *)
(* (606-639), initialize_sheet (201-265), test_sheet_access (174-199).      *)
(***************************************************************************)
S_Food == <<"F", "o", "o", "d">>
S_Others == <<"O", "t", "h", "e", "r", "s">>
S_Salary == <<"S", "a", "l", "a", "r", "y">>
S_Groceries == <<"G", "r", "o", "c", "e", "r", "i", "e", "s">>
S_DiningOut == <<"D", "i", "n", "i", "n", "g", " ", "O", "u", "t">>
S_Miscellaneous == <<"M", "i", "s", "c", "e", "l", "l", "a", "n", "e", "o", "u", "s">>
S_Regular == <<"R", "e", "g", "u", "l", "a", "r">>
S_Bonus == <<"B", "o", "n", "u", "s">>
S_Pending == <<"P", "e", "n", "d", "i", "n", "g">>
S_Empty == <<>>
S_PointZero == <<".", "0">>
L_amount_negative == <<"a", "m", "o", "u", "n", "t", ":", " ", "-", "2", "0">>
L_amount_words == <<"a", "m", "o", "u", "n", "t", ":", " ", "f", "i", "v", "e", " ", "h", "u", "n", "d", "r", "e", "d">>
L_category_unknown == <<"c", "a", "t", "e", "g", "o", "r", "y", ":", " ", "C", "r", "y", "p", "t", "o">>
L_category_salary == <<"c", "a", "t", "e", "g", "o", "r", "y", ":", " ", "S", "a", "l", "a", "r", "y">>
L_income == <<"t", "y", "p", "e", ":", " ", "I", "n", "c", "o", "m", "e">>
L_transfer == <<"t", "y", "p", "e", ":", " ", "T", "r", "a", "n", "s", "f", "e", "r">>

\* CATEGORIES (config/constants.py), abridged to two Expense categories and one
\* Income category, each with its first subcategories.
CATEGORIES(type) ==
    IF type = V_Expense
    THEN (S_Food :> <<S_Groceries, S_DiningOut>>) @@ (S_Others :> <<S_Miscellaneous>>)
    ELSE (S_Salary :> <<S_Regular, S_Bonus>>)

\* The day of the month a 'YYYY-MM-DD' string ends with, given its 'YYYY-MM-' part
\* and the number of days of that month; 0 when the string is no such date.
DayOfMonth(str, ym, days) ==
    IF /\ Len(str) = Len(ym) + 2
       /\ SubSeq(str, 1, Len(ym)) = ym
       /\ str[Len(ym) + 1] \in Digits
       /\ str[Len(ym) + 2] \in Digits
       /\ IntOf(SubSeq(str, Len(ym) + 1, Len(ym) + 2)) \in 1..days
    THEN IntOf(SubSeq(str, Len(ym) + 1, Len(ym) + 2))
    ELSE 0

\* datetime.strptime(s, '%Y-%m-%d') as a day ordinal, for the months Strftime names;
\* 0 stands for ValueError.
Strptime(str) ==
    IF DayOfMonth(str, YM_2026_11, 30) # 0 THEN 739920 + DayOfMonth(str, YM_2026_11, 30)
    ELSE IF DayOfMonth(str, YM_2024_01, 31) # 0 THEN 738885 + DayOfMonth(str, YM_2024_01, 31)
    ELSE 0

IsNumber(v) ==
    /\ v # << >>
    /\ LET body == IF Head(v) = "-" THEN Tail(v) ELSE v
       IN  body # << >> /\ \A i \in 1..Len(body) : body[i] \in Digits

\* str(float(amount)) for a whole number; float() raises ValueError otherwise.
FloatStr(v) == v \o S_PointZero

\* What show_transaction_form draws for the current transaction: no form when amount
\* or type is missing; an exception when the category lookup fails; else the form,
\* with the subcategories offered (none for a deferred type).
FormBuild(info) ==
    IF ~(K_amount \in DOMAIN info /\ K_type \in DOMAIN info) THEN [kind |-> "no_form"]
    ELSE IF Strptime(info[K_date]) = 0 THEN [kind |-> "raise"]
    ELSE IF info[K_type] \in {V_ToReceive, V_ToPay}
         THEN [kind |-> "form", deferred |-> TRUE, subcategories |-> << >>]
    ELSE IF \/ info[K_type] \notin {V_Expense, V_Income}
            \/ K_category \notin DOMAIN info
            \/ info[K_category] \notin DOMAIN CATEGORIES(info[K_type])
         THEN [kind |-> "raise"]
    ELSE [kind |-> "form", deferred |-> FALSE,
          subcategories |-> CATEGORIES(info[K_type])[info[K_category]]]

\* str(transaction_date): the date input, left at its default
\* strptime(extracted_info['date'], '%Y-%m-%d').
DateCell(info) == Strftime(Strptime(info[K_date]))

\* str(due_date): the date input, left at its default, which is the parsed due_date,
\* or now + 7 days when it is missing, empty or strptime raises ValueError.
DueDateCell(info, n) ==
    IF K_due_date \in DOMAIN info /\ info[K_due_date] # << >> /\ Strptime(info[K_due_date]) # 0
    THEN Strftime(Strptime(info[K_due_date]))
    ELSE Strftime(n + 7)

\* info.get('description', '')
DescriptionOf(info) == IF K_description \in DOMAIN info THEN info[K_description] ELSE S_Empty

\* What a save did: the sheets after it, whether it returned True, whether the row
\* was appended, and the outcome of the schema set-up it ran (pending saves only).
\* and the call or conversion that raised.
Saved(sh, ok, appended, v, error) ==
    [sheets |-> sh, ok |-> ok, appended |-> appended, verify |-> v, error |-> error]

NoVerify ==
    [sheets |-> NoSheets, ok |-> FALSE, creates |-> {}, headers |-> {}, raced |-> {},
     error |-> "none", ran |-> FALSE]
Ran(v) ==
    [sheets |-> v.sheets, ok |-> v.ok, creates |-> v.creates, headers |-> v.headers,
     raced |-> v.raced, error |-> v.error, ran |-> TRUE]

\* values = [[str(date), amount, trans_type, category, subcategory, description]]
ExpensesRow(info, subcategory) ==
    <<DateCell(info), FloatStr(info[K_amount]), info[K_type], info[K_category],
      subcategory, DescriptionOf(info)>>

\* values = [[str(date), amount, trans_type, category, description, str(due_date), 'Pending']]
PendingRow(info, n) ==
    <<DateCell(info), FloatStr(info[K_amount]), info[K_type], info[K_category],
      DescriptionOf(info), DueDateCell(info, n), S_Pending>>

\* add_transaction_to_sheet: every exception of its body makes it return False.
add_transaction_to_sheet(sh, info, subcategory, fail) ==
    IF ~IsNumber(info[K_amount]) THEN Saved(sh, FALSE, FALSE, NoVerify, "float")
    ELSE IF fail = "append" \/ "Expenses" \notin DOMAIN sh
         THEN Saved(sh, FALSE, FALSE, NoVerify, "append")
    ELSE Saved(AppendRow(sh, "Expenses", ExpensesRow(info, subcategory)), TRUE, TRUE,
               NoVerify, "none")

\* add_pending_transaction_to_sheet: verify_sheets_setup first, then as above.
add_pending_transaction_to_sheet(sh, info, n, raced, fail) ==
    LET v == verify_sheets_setup(sh, raced, fail)
    IN  IF ~v.ok THEN Saved(v.sheets, FALSE, FALSE, Ran(v), v.error)
        ELSE IF ~IsNumber(info[K_amount]) THEN Saved(v.sheets, FALSE, FALSE, Ran(v), "float")
        ELSE IF fail = "append" \/ "Pending" \notin DOMAIN v.sheets
             THEN Saved(v.sheets, FALSE, FALSE, Ran(v), "append")
        ELSE Saved(AppendRow(v.sheets, "Pending", PendingRow(info, n)), TRUE, TRUE, Ran(v),
                   "none")

\* st.session_state after init_session_state, for the keys main and
\* show_transaction_form read.
NoTransaction == [kind |-> "none"]
Transaction(info) == [kind |-> "map", map |-> info]

Running(messages, transaction, submitted) ==
    [kind |-> "running", sheets_verified |-> TRUE, messages |-> messages,
     current_transaction |-> transaction, form_submitted |-> submitted]

\* What the last run did, for the claims to read.
Calls(kind, before, saved, notice, extract) ==
    [kind |-> kind, before |-> before, error |-> saved.error, extract |-> extract,
     ok |-> saved.ok, appended |-> saved.appended, verify |-> saved.verify,
     notice |-> notice]

S_TEST == <<"T", "E", "S", "T">>

\* The values of test_sheet_access: [['TEST', 'TEST', 'TEST', 'TEST', 'TEST', 'TEST']]
TestRow == <<S_TEST, S_TEST, S_TEST, S_TEST, S_TEST, S_TEST>>

\* initialize_sheet: the two blocks of verify_sheets_setup, then test_sheet_access,
\* which appends a row to Expenses and clears it; every failure is raised (ok FALSE).
initialize_sheet(sh, raced, fail) ==
    LET v == verify_sheets_setup(sh, raced, fail)
    IN  IF ~v.ok THEN Saved(v.sheets, FALSE, FALSE, Ran(v), v.error)
        ELSE IF fail = "append" \/ "Expenses" \notin DOMAIN v.sheets
             THEN Saved(v.sheets, FALSE, FALSE, Ran(v), "append")
        ELSE IF fail = "clear"
             THEN Saved(AppendRow(v.sheets, "Expenses", TestRow), FALSE, TRUE, Ran(v), "clear")
        ELSE Saved(ClearLastRow(AppendRow(v.sheets, "Expenses", TestRow), "Expenses"),
                   TRUE, TRUE, Ran(v), "none")

\* `if st.session_state.form_submitted:` of show_transaction_form with its handlers:
\* what the save did. Reading extracted_info['category'] for a deferred transaction
\* raises inside the try when the key is missing.
SaveOutcome(sh, info, n, subcategory, raced, fail) ==
    IF info[K_type] \in {V_ToReceive, V_ToPay}
    THEN IF K_category \notin DOMAIN info THEN Saved(sh, FALSE, FALSE, NoVerify, "category")
         ELSE add_pending_transaction_to_sheet(sh, info, n, raced, fail)
    ELSE add_transaction_to_sheet(sh, info, subcategory, fail)

\* The entry of `history` for an append the store accepted.
Appended(title, before, after) ==
    [title |-> title, row |-> after[title][Len(after[title])], first |-> FirstRow(before, title)]

(***************************************************************************)
(* Spec: the session against the spreadsheet.                              *)
(***************************************************************************)
\* The user messages a session takes, and the appends the store takes.
MaxMessages == 2
MaxAppends == 2

\* What the service answers in the session runs.
AppResponses ==
    { TextResponse(<<L_expense, L_amount, L_category, L_description>>),
      TextResponse(<<L_to_pay, L_amount, L_category, L_description, L_due_soon>>),
      TextResponse(<<L_to_receive, L_amount_words, L_category>>),
      TextResponse(<<L_to_pay, L_amount>>),
      TextResponse(<<L_expense>>),
      TextResponse(<<L_expense, L_amount_negative, L_category>>),
      TextResponse(<<L_expense, L_amount, L_category_unknown>>),
      TextResponse(<<L_income, L_amount, L_category_salary>>),
      TextResponse(<<L_expense, L_amount, L_category_salary>>),
      TextResponse(<<L_transfer, L_amount, L_category>>),
      TextResponse(<<L_prose>>),
      ServiceFailure }

\* process_user_input on each of these answers, for each reference day.
Extractions == [n \in NowDays |-> [resp \in AppResponses |-> process_user_input(resp, n)]]

\* The field maps a session can hold, and what show_transaction_form draws for each.
FieldMaps ==
    {got.map : got \in {g \in {Extractions[n][resp] : n \in NowDays, resp \in AppResponses} :
                            g.kind = "ok"}}
Forms == [info \in FieldMaps |-> FormBuild(info)]

NotSaved(sh) == Saved(sh, FALSE, FALSE, NoVerify, "none")

Init ==
    /\ now \in NowDays
    /\ text = << >>
    /\ resolved = NotCalled
    /\ response = NoResponse
    /\ extracted = NotCalled
    /\ sheets = NoSheets
    /\ session = NoSession
    /\ calls = NoCalls
    /\ history = << >>

Idle == UNCHANGED <<now, text, resolved, response, extracted>>

\* The first run of main in a session: verify_sheets_setup once, its result dropped,
\* then init_session_state.
StartSession(raced, fail) ==
    /\ session = NoSession
    /\ LET v == verify_sheets_setup(sheets, raced, fail)
       IN  /\ sheets' = v.sheets
           /\ calls' = Calls("start", sheets,
                             Saved(v.sheets, v.ok, FALSE, Ran(v), v.error), "none", FALSE)
    /\ session' = Running(<< >>, NoTransaction, FALSE)
    /\ UNCHANGED history
    /\ Idle

\* Every utterance is extracted, whatever the session holds.
NeedsExtract_always(sess) == TRUE

\* `if not st.session_state.current_transaction:` of main.
NeedsExtract(sess) == sess.current_transaction = NoTransaction

\* A run of main with a chat input: the utterance joins the messages, and is
\* extracted only while there is no current transaction; a rerun then shows the form.
\* An exception of process_user_input or of drawing the form ends in main's handler.
ChatInput(resp) ==
    /\ session.kind = "running"
    /\ Len(session.messages) < MaxMessages
    /\ LET got == Extractions[now][resp]
           fresh == NeedsExtract(session)
           transaction == IF fresh /\ got.kind = "ok" THEN Transaction(got.map)
                          ELSE session.current_transaction
           failed == \/ fresh /\ got.kind = "raise"
                     \/ transaction # NoTransaction /\ Forms[transaction.map].kind = "raise"
       IN  /\ session' = Running(Append(session.messages, "user"), transaction,
                                 session.form_submitted)
           /\ calls' = Calls("chat", sheets, NotSaved(sheets),
                             IF failed THEN "error" ELSE "none", fresh)
    /\ UNCHANGED <<sheets, history>>
    /\ Idle

\* A selectbox that also takes no choice at all.
Choices_or_none(form) ==
    {S_Empty} \cup {form.subcategories[i] : i \in 1..Len(form.subcategories)}

\* The subcategories the form's selectbox offers (no selectbox for a deferred type).
Choices(form) ==
    IF form.deferred THEN {S_Empty}
    ELSE {form.subcategories[i] : i \in 1..Len(form.subcategories)}

\* The sheets that can appear between the read of the titles and the create calls.
Races == SUBSET (Titles \ DOMAIN sheets)

\* The confirmation is shown and the transaction dropped whatever the save returned.
AfterSave_always_success(sess, success) ==
    Running(Append(sess.messages, "assistant"), NoTransaction, FALSE)

\* `if success:` of show_transaction_form: show_success_message adds the confirmation
\* to the messages and the transaction is dropped; else an error is shown and the
\* transaction stays. form_submitted is reset either way.
AfterSave(sess, success) ==
    IF success
    THEN Running(Append(sess.messages, "assistant"), NoTransaction, FALSE)
    ELSE Running(sess.messages, sess.current_transaction, FALSE)

\* The Save button of the form: on_click sets form_submitted, and the rerun of main
\* reaches `if st.session_state.form_submitted:`.
ClickSave ==
    /\ session.kind = "running"
    /\ session.current_transaction # NoTransaction
    /\ Len(session.messages) < MaxMessages
    /\ Len(history) < MaxAppends
    /\ Forms[session.current_transaction.map].kind = "form"
    /\ \E subcategory \in Choices(Forms[session.current_transaction.map]),
          raced \in Races, fail \in FailPoints :
           LET info == session.current_transaction.map
               deferred == Forms[info].deferred
               saved == SaveOutcome(sheets, info, now, subcategory, raced, fail)
           IN  /\ sheets' = saved.sheets
               /\ session' = AfterSave(session, saved.ok)
               /\ calls' = Calls(IF deferred THEN "pending" ELSE "expense", sheets, saved,
                                 IF saved.ok THEN "success" ELSE "error", FALSE)
               /\ history' =
                      IF saved.appended
                      THEN Append(history,
                                  Appended(IF deferred THEN "Pending" ELSE "Expenses",
                                           IF deferred THEN saved.verify.sheets ELSE sheets,
                                           saved.sheets))
                      ELSE history
    /\ Idle

\* The page is loaded again: a new session, the spreadsheet as it is.
Reload ==
    /\ session.kind = "running"
    /\ session' = NoSession
    /\ calls' = NoCalls
    /\ UNCHANGED <<sheets, history>>
    /\ Idle

\* Somebody else creates one of the sheets, empty.
OutOfBandCreate(title) ==
    /\ title \notin DOMAIN sheets
    /\ sheets' = AddSheet(sheets, title)
    /\ calls' = NoCalls
    /\ UNCHANGED <<session, history>>
    /\ Idle

Next ==
    \/ \E raced \in Races, fail \in FailPoints : StartSession(raced, fail)
    \/ \E resp \in AppResponses : ChatInput(resp)
    \/ ClickSave
    \/ Reload
    \/ \E title \in Titles : OutOfBandCreate(title)

Spec == Init /\ [][Next]_vars

\* initialize_sheet, which no run of main calls, run before a session starts.
InitializeSheetCall(raced, fail) ==
    /\ session = NoSession
    /\ Len(history) < MaxAppends
    /\ LET done == initialize_sheet(sheets, raced, fail)
       IN  /\ sheets' = done.sheets
           /\ calls' = Calls("initialize", sheets, done,
                             IF done.ok THEN "none" ELSE "error", FALSE)
           /\ history' = IF done.appended
                         THEN Append(history,
                                     [title |-> "Expenses", row |-> TestRow,
                                      first |-> FirstRow(done.verify.sheets, "Expenses")])
                         ELSE history
    /\ UNCHANGED session
    /\ Idle

NextSetup ==
    \/ Next
    \/ \E raced \in Races, fail \in FailPoints : InitializeSheetCall(raced, fail)

\* Spec with initialize_sheet callable as well.
SpecSetup == Init /\ [][NextSetup]_vars


\* verify_sheet_setup, which no code calls: the first row of Expenses is read and,
\* when it is absent or is not the expected header, written over with the header.
\* Every exception makes it return False.
verify_sheet_setup(sh, fail) ==
    IF fail = "get" \/ "Expenses" \notin DOMAIN sh THEN Saved(sh, FALSE, FALSE, NoVerify, "get")
    ELSE IF FirstRow(sh, "Expenses") = ExpensesHeader
         THEN Saved(sh, TRUE, FALSE, NoVerify, "none")
    ELSE IF fail = "header Expenses" THEN Saved(sh, FALSE, FALSE, NoVerify, fail)
    ELSE Saved(WriteFirstRow(sh, "Expenses", ExpensesHeader), TRUE, FALSE, NoVerify, "none")

\* verify_sheet_setup run before a session starts.
VerifySheetSetupCall(fail) ==
    /\ session = NoSession
    /\ LET done == verify_sheet_setup(sheets, fail)
       IN  /\ sheets' = done.sheets
           /\ calls' = Calls("verify_header", sheets, done,
                             IF done.ok THEN "none" ELSE "error", FALSE)
    /\ UNCHANGED <<session, history>>
    /\ Idle

NextHeader ==
    \/ NextSetup
    \/ \E fail \in FailPoints : VerifySheetSetupCall(fail)

\* SpecSetup with verify_sheet_setup callable as well.
SpecHeader == Init /\ [][NextHeader]_vars

(***************************************************************************)
(* Claims about the schema set-up.                                         *)
(***************************************************************************)
\* The runs that go through the schema set-up.
SetupRan == calls.kind \in {"start", "pending", "initialize"} /\ calls.verify.ran

\* C8: the schema set-up is idempotent: a sheet is created, and its header written,
\* only when its title is absent from the titles read; run on a spreadsheet that has
\* both sheets it creates nothing, writes no header, leaves every row as it was, and
\* goes through unless the read of the titles itself fails; initialize_sheet, when its
\* store calls succeed, returns with the rows as they were.
C8_EnsureSchemaIdempotent ==
    SetupRan =>
        /\ calls.verify.creates \subseteq Titles \ DOMAIN calls.before
        /\ calls.verify.headers \subseteq calls.verify.creates
        /\ Titles \subseteq DOMAIN calls.before =>
               /\ calls.verify.creates = {}
               /\ calls.verify.headers = {}
               /\ calls.verify.sheets = calls.before
               /\ calls.verify.error \in {"none", "get"}
               /\ calls.verify.ok <=> calls.verify.error = "none"
               /\ calls.kind = "start" => sheets = calls.before
               /\ calls.kind = "initialize" /\ calls.error = "none" =>
                      calls.ok /\ sheets = calls.before

\* initialize_sheet has run again on a spreadsheet whose two sheets carry their
\* headers and a saved row, and went through.
C8_Witness ==
    /\ SetupRan
    /\ calls.kind = "initialize"
    /\ Titles \subseteq DOMAIN calls.before
    /\ FirstRow(calls.before, "Expenses") = ExpensesHeader
    /\ FirstRow(calls.before, "Pending") = PendingHeader
    /\ Len(calls.before["Expenses"]) > 1
    /\ calls.ok

\* C9: a sheet created by someone else between the read of the titles and the
\* create call is tolerated: with no other failure the set-up goes through and
\* the pending row is appended.
C9_ToleratesRace ==
    /\ SetupRan
    /\ calls.kind = "pending"
    /\ calls.verify.raced # {}
    /\ calls.error \in {"none", "exists"}
    => calls.verify.ok /\ calls.appended

\* C10: whenever a pending row is appended, the first row of the Pending sheet is
\* the expected header at that moment.
C10_HeaderVerifiedBeforePendingAppend ==
    \A i \in 1..Len(history) :
        history[i].title = "Pending" => history[i].first = PendingHeader
(***************************************************************************)
(* Claims about saving.                                                    *)
(***************************************************************************)
SaveKinds == {"expense", "pending"}

\* C11: a failed append is never treated as succeeded: a save whose append did not
\* go through (the append call, the set-up before a pending append, or a conversion
\* failed) returns False, shows the error, adds no confirmation and keeps
\* current_transaction; a confirmation is added, or current_transaction dropped, only
\* by a save whose row the store took.
C11_FailedAppendNotSuccess ==
    [][ /\ calls'.kind \in SaveKinds /\ ~calls'.appended =>
               /\ ~calls'.ok
               /\ calls'.notice = "error"
               /\ session' = [session EXCEPT !.form_submitted = FALSE]
               /\ session'.current_transaction # NoTransaction
               /\ history' = history
        /\ /\ session.kind = "running"
           /\ session'.kind = "running"
           /\ \/ session'.messages = Append(session.messages, "assistant")
              \/ session.current_transaction # NoTransaction
                 /\ session'.current_transaction = NoTransaction
           => /\ calls'.kind \in SaveKinds
              /\ calls'.ok
              /\ calls'.appended
              /\ Len(history') = Len(history) + 1
              /\ LET done == history'[Len(history')]
                 IN  sheets'[done.title][Len(sheets'[done.title])] = done.row
      ]_vars

\* C11 witness: the append call of a save failed; the error is shown and the
\* transaction is still the current one.
C11_Witness ==
    /\ calls.kind \in SaveKinds
    /\ calls.error = "append"
    /\ ~calls.ok
    /\ calls.notice = "error"
    /\ session.current_transaction # NoTransaction
\* The rows of the saved transactions appended to a sheet, in the order of the appends.
RECURSIVE RowsAppended(_, _)
RowsAppended(title, h) ==
    IF h = << >> THEN << >>
    ELSE IF Head(h).title = title /\ Head(h).row # TestRow
         THEN <<Head(h).row>> \o RowsAppended(title, Tail(h))
    ELSE RowsAppended(title, Tail(h))

IsDataRow(title, r) == r # Header(title) /\ r # TestRow

\* The rows a sheet holds besides its header and test rows.
RECURSIVE RowsKept(_, _)
RowsKept(title, rows) ==
    IF rows = << >> THEN << >>
    ELSE IF IsDataRow(title, Head(rows)) THEN <<Head(rows)>> \o RowsKept(title, Tail(rows))
    ELSE RowsKept(title, Tail(rows))

\* C12: saved rows are append-only: in every state each sheet still holds every
\* transaction row appended to it, with its contents and in the order of the appends.
C12_AppendOnly ==
    \A title \in Titles :
        IF title \in DOMAIN sheets
        THEN RowsKept(title, sheets[title]) = RowsAppended(title, history)
        ELSE RowsAppended(title, history) = << >>
\* The type and category are in CATEGORIES.
InTaxonomy(type, category) ==
    /\ type \in {V_Income, V_Expense}
    /\ category \in DOMAIN CATEGORIES(type)

\* The members of a sequence.
Range(seq) == {seq[i] : i \in 1..Len(seq)}

\* C13: every row appended to Expenses has a type of Income or Expense, a category
\* that is a key of CATEGORIES[type] and a subcategory listed under it; for a
\* transaction of another, not deferred, type or of a category outside
\* CATEGORIES[type] no save is even attempted.
C13_RowsInTaxonomy ==
    /\ \A i \in 1..Len(history) :
           history[i].title = "Expenses" =>
               LET r == history[i].row
               IN  /\ InTaxonomy(r[3], r[4])
                   /\ r[5] \in Range(CATEGORIES(r[3])[r[4]])
    /\ /\ session.kind = "running"
       /\ session.current_transaction # NoTransaction
       /\ K_type \in DOMAIN session.current_transaction.map
       /\ session.current_transaction.map[K_type] \notin {V_ToReceive, V_ToPay}
       /\ \/ K_category \notin DOMAIN session.current_transaction.map
          \/ ~InTaxonomy(session.current_transaction.map[K_type],
                         session.current_transaction.map[K_category])
       => calls.kind \notin SaveKinds

\* C13 witness: an Income row was appended to Expenses, and the session now holds an
\* Expense transaction whose category is listed for Income only.
C13_Witness ==
    /\ \E i \in 1..Len(history) :
           history[i].title = "Expenses" /\ history[i].row[3] = V_Income
    /\ session.kind = "running"
    /\ session.current_transaction # NoTransaction
    /\ session.current_transaction.map[K_type] = V_Expense
    /\ K_category \in DOMAIN session.current_transaction.map
    /\ session.current_transaction.map[K_category] = S_Salary
\* The amount cell of a row is not negative.
NonNegative(cell) == cell # << >> /\ Head(cell) # "-"

\* C14: the amount of every transaction row appended to Expenses or Pending is a
\* non-negative decimal.
C14_AmountNonNegative ==
    \A i \in 1..Len(history) :
        history[i].row # TestRow => NonNegative(history[i].row[2])
(***************************************************************************)
(* Claims about the session.                                               *)
(***************************************************************************)
\* C15: every utterance entered in the chat input is passed to process_user_input,
\* once, and none is passed while a transaction awaits its confirmation or append.
C15_OnePipelinePerUtterance ==
    [][ calls'.kind = "chat" =>
            /\ calls'.extract
            /\ session.current_transaction = NoTransaction
      ]_vars
\* C16: after a hard failure (the service call, a store call, an exception reaching
\* the handler of main or of the save) the error is shown and the session holds no
\* transaction in progress: current_transaction is unset and form_submitted is False.
C16_NoPartialStateAfterFailure ==
    /\ session.kind = "running"
    /\ calls.kind \in {"chat"} \cup SaveKinds
    /\ calls.notice = "error"
    => /\ session.current_transaction = NoTransaction
       /\ ~session.form_submitted

\* The session holds a field map without an amount.
Stuck(sess) ==
    /\ sess.kind = "running"
    /\ sess.current_transaction # NoTransaction
    /\ K_amount \notin DOMAIN sess.current_transaction.map

\* C17: within a session current_transaction changes only by being cleared after a
\* successful append; so once it is a field map without an amount no form is drawn,
\* it stays as it is, nothing is saved, and every later utterance joins the messages
\* without being passed to process_user_input.
C17_StuckWithoutAmount ==
    [][ /\ /\ session.kind = "running"
           /\ session'.kind = "running"
           /\ session.current_transaction # NoTransaction
           /\ session'.current_transaction # session.current_transaction
           => /\ session'.current_transaction = NoTransaction
              /\ calls'.kind \in SaveKinds
              /\ calls'.ok
              /\ calls'.appended
        /\ Stuck(session) /\ session'.kind = "running" =>
               /\ Forms[session.current_transaction.map].kind = "no_form"
               /\ session'.current_transaction = session.current_transaction
               /\ calls'.kind \notin SaveKinds
               /\ history' = history
               /\ calls'.kind = "chat" =>
                      /\ ~calls'.extract
                      /\ session'.messages = Append(session.messages, "user")
      ]_vars

\* C17 witness: a field map without an amount is held, and a later utterance has
\* joined the messages without being extracted.
C17_Witness ==
    /\ Stuck(session)
    /\ K_type \in DOMAIN session.current_transaction.map
    /\ Len(session.messages) >= 2
    /\ calls.kind = "chat"
    /\ ~calls.extract
====
